---- MODULE Spec2Model ----
(***************************************************************************)
(* Model of the capture / processing cycle of LEDDetectorNode              *)
(* (packages/led_detection/src/led_detector_node.py), of its region       *)
(* cropper crop_image, and of get_log_if_not_exists                        *)
(* (packages/easy_logs/include/easy_logs/app_with_logs.py).                *)
(*                                                                         *)
(* Time is counted in integer ticks; a camera message is the record        *)
(* [timestamp, seq] (header.stamp and header.seq), the picture itself is   *)
(* identified by the message that carried it.                              *)
(***************************************************************************)
EXTENDS Integers, Sequences, FiniteSets, TLC

\* ------------------------------------------------------------------ bounds
MaxTime == 4          \* largest header stamp the frame source produces
MaxFrames == 6        \* number of messages the frame source produces
MaxCaptureTime == 2   \* largest configured ~capture_time
MaxDim == 2           \* largest image height / width given to crop_image
Den == 2              \* normalized crop bounds are the fractions k / Den
MaxImg == 2           \* largest depth of the volume given to crop_image
MaxUrls == 3          \* largest number of urls of a log resource

VARIABLES
    \* fields of LEDDetectorNode
    trigger, capture_finished, first_timestamp, node_state, data, left,
    right, front, traffic_light,
    capture_time,      \* self.parameters['~capture_time']
    sub_cam,           \* TRUE while the camera subscription is registered
    \* execution
    running,           \* the image stacks of the process_and_publish calls in progress
    error,             \* the exception that left camera_callback, "none" if none did
    pub_detections,    \* the messages published on ~signals_detection
    \* frame source
    now, seq,          \* stamp and sequence number of the last message sent
    \* history
    seen,              \* messages given to camera_callback in the window being captured
    cycles,            \* one record per processing run that was started
    during,            \* messages given to camera_callback while a processing run was in progress
    rearm_first,       \* first message given to camera_callback since the node was last armed
    pub_at,            \* value of seq at each publication
    last_run,          \* what the last processing run that finished computed
    \* crop_image, checked on its own
    crop_in, crop_out,
    \* get_log_if_not_exists, checked on its own
    gl_pc,             \* "start", "loop" (lines 123-133), "returned" or "raised"
    in_index,          \* dtr.name in all_resources.basename2filename
    file_exists,       \* os.path.exists(filename) at line 106
    urls,              \* dtr.urls
    reachable,         \* the positions in urls whose download succeeds
    use,               \* the list use, as positions in urls, still to try
    attempts,          \* the positions in urls given to download_if_not_exist, in order
    downloaded,        \* the position in urls the file was downloaded from, 0 if none
    result,            \* the path returned
    cache_invalidated  \* invalidate_log_cache_because_downloaded was called

node_vars == <<trigger, capture_finished, first_timestamp, node_state, data, left, sub_cam,
              right, front, traffic_light>>
hist_vars == <<seen, cycles, during, rearm_first, pub_at, last_run>>
crop_vars == <<crop_in, crop_out>>
log_vars == <<gl_pc, in_index, file_exists, urls, reachable, use, attempts, downloaded,
             result, cache_invalidated>>
vars == <<node_vars, capture_time, running, error, pub_detections, now, seq, hist_vars, crop_vars,
          log_vars>>

NoFrame == [timestamp |-> -1, seq |-> 0]

NoRun ==
    [buffered |-> -1, depth |-> -1, crops |-> <<>>, num_img |-> -1,
     t_s |-> [num |-> 0, den |-> 1],
     returned |-> [right |-> "None", front |-> "None", traffic_light |-> "None"]]

Range(s) == {s[i] : i \in 1..Len(s)}

\* --------------------------------------------------------- the node object
\* The fields of self that camera_callback and process_and_publish read and write.
Node ==
    [trigger |-> trigger, capture_finished |-> capture_finished,
     first_timestamp |-> first_timestamp, node_state |-> node_state,
     data |-> data, left |-> left, sub_cam |-> sub_cam,
     right |-> right, front |-> front, traffic_light |-> traffic_light,
     capture_time |-> capture_time, invoked |-> FALSE]

SetNode(s) ==
    /\ trigger' = s.trigger
    /\ capture_finished' = s.capture_finished
    /\ first_timestamp' = s.first_timestamp
    /\ node_state' = s.node_state
    /\ data' = s.data
    /\ left' = s.left
    /\ sub_cam' = s.sub_cam
    /\ right' = s.right
    /\ front' = s.front
    /\ traffic_light' = s.traffic_light

\* ------------------------------------------------------- camera_callback
\* lines 77-86: a set trigger starts a window; otherwise a finished capture is idle.
Arm_KeepData(self, msg) ==
    IF self.trigger
    THEN [self EXCEPT !.trigger = FALSE, !.capture_finished = FALSE,
                      !.first_timestamp = msg.timestamp]
    ELSE IF self.capture_finished THEN [self EXCEPT !.node_state = 0] ELSE self

Arm(self, msg) ==
    IF self.trigger
    THEN [self EXCEPT !.trigger = FALSE, !.data = <<>>, !.capture_finished = FALSE,
                      !.first_timestamp = msg.timestamp]
    ELSE IF self.capture_finished THEN [self EXCEPT !.node_state = 0] ELSE self

\* line 92: the frame is inside the capture window.
Capturing_Inclusive(rel_time, ct) == rel_time <= ct

Capturing_Positive(rel_time, ct) == 0 < rel_time /\ rel_time < ct

Capturing(rel_time, ct) == rel_time < ct

\* lines 93-98: the frame is stored.
Capture_Replace(self, msg) == [self EXCEPT !.node_state = 1, !.data = <<msg>>]

Capture(self, msg) == [self EXCEPT !.node_state = 1, !.data = Append(@, msg)]

\* lines 104-109: capture is closed, the subscription is dropped; line 112 follows.
StartProcessing_RearmEarly(self) ==
    [self EXCEPT !.node_state = 2, !.capture_finished = TRUE, !.first_timestamp = 0,
                 !.trigger = TRUE, !.sub_cam = FALSE, !.invoked = TRUE]

StartProcessing_KeepOpen(self) ==
    [self EXCEPT !.node_state = 2, !.sub_cam = FALSE, !.invoked = TRUE]

StartProcessing(self) ==
    [self EXCEPT !.node_state = 2, !.capture_finished = TRUE, !.first_timestamp = 0,
                 !.sub_cam = FALSE, !.invoked = TRUE]

\* lines 88-112, the frame that closes the window being handled like a stored one.
Dispatch_StoreTrigger(self, msg) ==
    IF self.first_timestamp > 0
    THEN LET rel_time == msg.timestamp - self.first_timestamp IN
         IF Capturing(rel_time, self.capture_time) THEN Capture(self, msg)
         ELSE IF ~self.capture_finished /\ self.first_timestamp > 0
              THEN StartProcessing(Capture(self, msg))
              ELSE self
    ELSE self

Dispatch(self, msg) ==
    IF self.first_timestamp > 0
    THEN LET rel_time == msg.timestamp - self.first_timestamp IN
         IF Capturing(rel_time, self.capture_time) THEN Capture(self, msg)
         ELSE IF ~self.capture_finished /\ self.first_timestamp > 0
              THEN StartProcessing(self)
              ELSE self
    ELSE self

\* lines 73-112 up to the call of process_and_publish; .invoked tells whether
\* line 112 is reached.
camera_callback(self, msg) == Dispatch(Arm(self, msg), msg)

\* --------------------------------------------------- process_and_publish
\* lines 227-232: one SignalsDetection message.
SignalsDetection(self) ==
    [front |-> self.front, right |-> self.right, left |-> self.left,
     traffic_light_state |-> self.traffic_light]

publish_Twice(self, out) ==
    Append(Append(out, SignalsDetection(self)), SignalsDetection(self))

publish(self, out) == Append(out, SignalsDetection(self))

\* lines 207-209: the node is armed again and subscribes again.
Rearm(self) == [self EXCEPT !.trigger = TRUE, !.sub_cam = TRUE]

\* ------------------------------------------------------------ frame source
\* The messages the camera can send next: stamps never decrease.
NextMsgs ==
    IF seq < MaxFrames
    THEN {[timestamp |-> t, seq |-> seq + 1] : t \in now..MaxTime}
    ELSE {}

\* ---------------------------------------------------------------- actions
\* One call of camera_callback(msg), with lines 130-141 of process_and_publish
\* when line 112 is reached: the stack of images is built from self.data, and
\* data[0] raises IndexError on an empty list.
Callback(msg) ==
    LET s == camera_callback(Node, msg)
        raises == s.invoked /\ s.data = <<>>
        open == ~trigger /\ ~capture_finished
        log == IF trigger THEN <<msg>>
               ELSE IF open /\ ~s.invoked THEN Append(seen, msg) ELSE seen
    IN  /\ SetNode(s)
        /\ now' = msg.timestamp
        /\ seq' = msg.seq
        /\ running' = IF s.invoked /\ ~raises THEN Append(running, s.data) ELSE running
        /\ error' = IF raises THEN "IndexError" ELSE error
        /\ seen' = log
        /\ cycles' = IF s.invoked /\ ~raises
                     THEN Append(cycles, [frames |-> s.data, trigger |-> msg,
                                          seen |-> IF trigger THEN <<>> ELSE seen,
                                          first |-> rearm_first])
                     ELSE cycles
        /\ during' = IF running # <<>> THEN during \cup {msg} ELSE during
        /\ rearm_first' = IF rearm_first = NoFrame THEN msg ELSE rearm_first
        /\ UNCHANGED <<capture_time, pub_detections, pub_at, last_run, crop_vars, log_vars>>

\* The subscription delivers a message while no processing run is in progress.
Deliver ==
    /\ sub_cam
    /\ running = <<>>
    /\ \E msg \in NextMsgs : Callback(msg)

\* camera_callback is invoked again while process_and_publish is in progress
\* (a message that was already dispatched when the subscription was dropped).
DeliverWhileProcessing ==
    /\ running # <<>>
    /\ \E msg \in NextMsgs : Callback(msg)

\* ------------------------------------------------------------- crop_image
\* np.floor / np.ceil of dim * (k / Den), lines 118-121.
FloorMul(dim, k) == (dim * k) \div Den

CeilMul_Floor(dim, k) == (dim * k) \div Den

CeilMul(dim, k) == -((-(dim * k)) \div Den)

\* An index of a Python slice over n elements: a negative index counts from
\* the end, and the result is clamped into 0..n (line 123).
SliceIndex(i, n) ==
    IF i < 0 THEN (IF i + n < 0 THEN 0 ELSE i + n)
    ELSE (IF i > n THEN n ELSE i)

\* The half-open range a[start:end] selects out of n elements.
Slice(start, end, n) ==
    LET lo == SliceIndex(start, n)
        hi == SliceIndex(end, n)
    IN  <<lo, IF hi < lo THEN lo ELSE hi>>

\* lines 114-125; images has shape (height, width, num_img), crop_norm is
\* [[h0/Den, h1/Den], [w0/Den, w1/Den]].
crop_image(c) ==
    LET h_start == FloorMul(c.height, c.h0)
        h_end == CeilMul(c.height, c.h1)
        w_start == FloorMul(c.width, c.w0)
        w_end == CeilMul(c.width, c.w1)
    IN  [raised |-> "none",
         rows |-> Slice(h_start, h_end, c.height),
         cols |-> Slice(w_start, w_end, c.width),
         depth |-> c.num_img]

NoCrop == [raised |-> "none", rows |-> <<-1, -1>>, cols |-> <<-1, -1>>, depth |-> -1]

CropInputs ==
    [height : 1..MaxDim, width : 1..MaxDim, num_img : 1..MaxImg,
     h0 : -1..(Den + 1), h1 : -1..(Den + 1), w0 : -1..(Den + 1), w1 : -1..(Den + 1)]

\* One call of crop_image.
CropCall ==
    /\ crop_out = NoCrop
    /\ crop_out' = crop_image(crop_in)
    /\ UNCHANGED <<node_vars, capture_time, running, error, pub_detections, now, seq,
                   hist_vars, crop_in, log_vars>>

\* ------------------------------------------- process_and_publish, the run
\* line 133: every frame of the camera has the same shape.
ImgHeight == MaxDim

ImgWidth == MaxDim

\* self.parameters['~crop_params']: the three region boxes, in units of 1 / Den.
CropParams ==
    [cropNormalizedRight |-> [h0 |-> 0, h1 |-> Den, w0 |-> 1, w1 |-> Den],
     cropNormalizedFront |-> [h0 |-> 0, h1 |-> Den, w0 |-> 0, w1 |-> Den],
     cropNormalizedTL |-> [h0 |-> 0, h1 |-> 1, w0 |-> 0, w1 |-> Den]]

\* The symbols detector.interpret_signal can return.
Signals == {"NO_SIGNAL", "SIGNAL_A"}

\* line 134.
NumImg_OffByOne(images) == Len(images) - 1

NumImg(images) == Len(images)

\* lines 137-141: the volume of shape (h, w, num_img) the frames are copied into.
StackShape(num_img) == [height |-> ImgHeight, width |-> ImgWidth, num_img |-> num_img]

\* lines 144-146: crop_image(images, crop_norm).
CropRegion(shape, crop_norm) ==
    crop_image([height |-> shape.height, width |-> shape.width, num_img |-> shape.num_img,
                h0 |-> crop_norm.h0, h1 |-> crop_norm.h1,
                w0 |-> crop_norm.w0, w1 |-> crop_norm.w1])

\* line 185: t_s = capture_time / num_img, kept as a fraction.
SamplingTime(ct, num_img) == [num |-> ct, den |-> num_img]

\* lines 180-193: the fields take what interpret_signal returned; left is UNKNOWN.
Detect_KeepFront(self, r, f, tl) ==
    [self EXCEPT !.right = r, !.traffic_light = tl, !.left = "UNKNOWN"]

Detect(self, r, f, tl) ==
    [self EXCEPT !.right = r, !.front = f, !.traffic_light = tl, !.left = "UNKNOWN"]

\* lines 143-209 of process_and_publish: crop, detect, publish, arm again.
ProcessAndPublish ==
    /\ running # <<>>
    /\ LET images == Head(running)
           num_img == NumImg(images)
           shape == StackShape(Len(images))
           img_right == CropRegion(shape, CropParams.cropNormalizedRight)
           img_front == CropRegion(shape, CropParams.cropNormalizedFront)
           img_tl == CropRegion(shape, CropParams.cropNormalizedTL)
           t_s == SamplingTime(capture_time, num_img)
       IN  \E r \in Signals, f \in Signals, tl \in Signals :
               LET self == Detect(Node, r, f, tl) IN
               /\ pub_detections' = publish(self, pub_detections)
               /\ SetNode(Rearm(self))
               /\ last_run' =
                      [buffered |-> Len(data), depth |-> shape.num_img,
                       crops |-> <<img_right.depth, img_front.depth, img_tl.depth>>,
                       num_img |-> num_img, t_s |-> t_s,
                       returned |-> [right |-> r, front |-> f, traffic_light |-> tl]]
    /\ running' = Tail(running)
    /\ pub_at' = Append(pub_at, seq)
    /\ rearm_first' = NoFrame
    /\ UNCHANGED <<capture_time, error, now, seq, seen, cycles, during, crop_vars, log_vars>>

\* ---------------------------------------------------- get_log_if_not_exists
\* A url of the resource: its scheme and whether the text 8080 occurs in it.
UrlKinds == [scheme : {"http", "https", "file"}, has8080 : BOOLEAN]

\* line 112: url.startswith('http').
startswith_http(url) == url.scheme \in {"http", "https"}

\* lines 115-119.
priority_Reversed(x) == IF x.has8080 THEN 1 ELSE 0

priority(x) == IF x.has8080 THEN 0 ELSE 1

\* lines 110-113: the positions of the urls that start with http, in order.
HttpUrls(us) ==
    LET IsHttp(i) == startswith_http(us[i])
    IN  SelectSeq([i \in 1..Len(us) |-> i], IsHttp)

\* line 121: list.sort(key=priority) is stable, and the key is 0 or 1.
SortByPriority(ps, us) ==
    LET First(i) == priority(us[i]) = 0
        Second(i) == priority(us[i]) = 1
    IN  SelectSeq(ps, First) \o SelectSeq(ps, Second)

\* lines 97 and 106: nothing is downloaded when the file is known locally.
IsLocal_IndexOnly(idx, ex) == idx

IsLocal(idx, ex) == idx \/ ex

\* lines 99 and 105: the path returned, from the resource index or in downloads.
LocalPath(idx) == IF idx THEN "basename2filename" ELSE "downloads"

\* lines 89-121: the local checks, then the list of urls to try.
GetLogStart ==
    /\ gl_pc = "start"
    /\ IF IsLocal(in_index, file_exists)
       THEN /\ gl_pc' = "returned"
            /\ result' = LocalPath(in_index)
            /\ use' = use
       ELSE /\ gl_pc' = "loop"
            /\ result' = result
            /\ use' = SortByPriority(HttpUrls(urls), urls)
    /\ UNCHANGED <<node_vars, capture_time, running, error, pub_detections, now, seq,
                   hist_vars, crop_vars, in_index, file_exists, urls, reachable,
                   attempts, downloaded, cache_invalidated>>

\* lines 123-130 and 135-137: one url is tried; a success ends the loop,
\* invalidates the cache and returns the path in downloads.
TryUrl ==
    /\ gl_pc = "loop"
    /\ use # <<>>
    /\ attempts' = Append(attempts, Head(use))
    /\ IF Head(use) \in reachable
       THEN /\ downloaded' = Head(use)
            /\ cache_invalidated' = TRUE
            /\ result' = LocalPath(FALSE)
            /\ gl_pc' = "returned"
            /\ use' = use
       ELSE /\ use' = Tail(use)
            /\ UNCHANGED <<downloaded, cache_invalidated, result, gl_pc>>
    /\ UNCHANGED <<node_vars, capture_time, running, error, pub_detections, now, seq,
                   hist_vars, crop_vars, in_index, file_exists, urls, reachable>>

\* lines 131-133: the loop ended without a break.
RaiseNoDownload ==
    /\ gl_pc = "loop"
    /\ use = <<>>
    /\ gl_pc' = "raised"
    /\ UNCHANGED <<node_vars, capture_time, running, error, pub_detections, now, seq,
                   hist_vars, crop_vars, in_index, file_exists, urls, reachable, use,
                   attempts, downloaded, result, cache_invalidated>>

\* No call of get_log_if_not_exists.
InitLogIdle ==
    /\ gl_pc = "start"
    /\ in_index = TRUE
    /\ file_exists = FALSE
    /\ urls = <<>>
    /\ reachable = {}
    /\ use = <<>>
    /\ attempts = <<>>
    /\ downloaded = 0
    /\ result = "none"
    /\ cache_invalidated = FALSE

UrlLists == UNION {[1..n -> UrlKinds] : n \in 0..MaxUrls}

\* ------------------------------------------------------------- parameters
\* cbParametersChanged: the parameter server hands the node a new ~capture_time.
UpdateParameters ==
    /\ \E ct \in 0..MaxCaptureTime : ct # capture_time /\ capture_time' = ct
    /\ UNCHANGED <<node_vars, running, error, pub_detections, now, seq, hist_vars, crop_vars,
                   log_vars>>

\* ---------------------------------------------------------- specifications
\* lines 45-57: the node after construction, nothing sent yet.
InitNode ==
    /\ trigger = TRUE
    /\ capture_finished = TRUE
    /\ first_timestamp = 0
    /\ node_state = 0
    /\ data = <<>>
    /\ left = "UNKNOWN"
    /\ right = "None"
    /\ front = "None"
    /\ traffic_light = "None"
    /\ sub_cam = TRUE
    /\ running = <<>>
    /\ error = "none"
    /\ pub_detections = <<>>
    /\ now = 0
    /\ seq = 0
    /\ seen = <<>>
    /\ cycles = <<>>
    /\ during = {}
    /\ rearm_first = NoFrame
    /\ pub_at = <<>>
    /\ last_run = NoRun

FullImage == [height |-> 1, width |-> 1, num_img |-> 1, h0 |-> 0, h1 |-> Den, w0 |-> 0, w1 |-> Den]

\* A valid, fixed configuration (capture_time > 0).
Init ==
    /\ InitNode
    /\ capture_time \in 1..MaxCaptureTime
    /\ crop_in = FullImage
    /\ crop_out = NoCrop
    /\ InitLogIdle

Next ==
    \/ Deliver
    \/ DeliverWhileProcessing
    \/ ProcessAndPublish

Spec == Init /\ [][Next]_vars

\* Any configuration, changed while the node runs.
InitCfg ==
    /\ InitNode
    /\ capture_time \in 0..MaxCaptureTime
    /\ crop_in = FullImage
    /\ crop_out = NoCrop
    /\ InitLogIdle

NextCfg ==
    \/ Deliver
    \/ DeliverWhileProcessing
    \/ ProcessAndPublish
    \/ UpdateParameters

SpecCfg == InitCfg /\ [][NextCfg]_vars

\* crop_image on every image shape and region box within the bounds.
InitCrop ==
    /\ InitNode
    /\ capture_time = 1
    /\ crop_in \in CropInputs
    /\ crop_out = NoCrop
    /\ InitLogIdle

NextCrop == CropCall

SpecCrop == InitCrop /\ [][NextCrop]_vars

\* get_log_if_not_exists on every resource and local state within the bounds.
InitLog ==
    /\ InitNode
    /\ capture_time = 1
    /\ crop_in = FullImage
    /\ crop_out = NoCrop
    /\ gl_pc = "start"
    /\ in_index \in BOOLEAN
    /\ file_exists \in BOOLEAN
    /\ urls \in UrlLists
    /\ reachable \in SUBSET (1..Len(urls))
    /\ use = <<>>
    /\ attempts = <<>>
    /\ downloaded = 0
    /\ result = "none"
    /\ cache_invalidated = FALSE

NextLog ==
    \/ GetLogStart
    \/ TryUrl
    \/ RaiseNoDownload

SpecLog == InitLog /\ [][NextLog]_vars

\* ----------------------------------------------------------------- claims
Frames(i) == Range(cycles[i].frames)

\* C1. A frame given to camera_callback while a processing run is in progress
\* is never stored: it is neither in the buffer nor in any analysed frame set;
\* and the buffer of the window that follows begins with the first frame
\* delivered after the node was armed again by the publishing run.
C1_Backpressure ==
    /\ \A f \in during :
          /\ f \notin Range(data)
          /\ \A i \in 1..Len(cycles) : f \notin Frames(i)
    /\ (rearm_first # NoFrame /\ data # <<>>) => data[1] = rearm_first
    /\ \A i \in 1..Len(cycles) : cycles[i].frames[1] = cycles[i].first

C1_Witness ==
    /\ Len(cycles) >= 2
    /\ \E f \in during :
          /\ f.seq > cycles[1].trigger.seq
          /\ f.seq < cycles[2].frames[1].seq

\* A delivered frame makes camera_callback reach line 112.
ProcessingStarts == Deliver /\ Len(running') > Len(running)

\* C2. A window that has been started is never stuck: as long as the frame
\* source can still send a frame stamped capture_time or more after the
\* window's start, some next frame starts processing.
C2_NeverStuck ==
    (/\ ~trigger /\ ~capture_finished /\ sub_cam /\ running = <<>>
     /\ seq < MaxFrames /\ now + capture_time <= MaxTime)
    => ENABLED ProcessingStarts

\* The frames seen in the window of cycle record c whose rel_time is below capture_time.
InWindow(c) ==
    LET Inside(f) == f.timestamp - c.seen[1].timestamp < capture_time
    IN  SelectSeq(c.seen, Inside)

\* C3. Processing runs on exactly the frames buffered before the frame that
\* closed the window: that frame is not analysed, and every earlier frame of
\* the window whose rel_time is below capture_time is.
C3_AnalysedSet ==
    \A i \in 1..Len(cycles) :
        /\ cycles[i].trigger \notin Frames(i)
        /\ cycles[i].trigger.timestamp - cycles[i].seen[1].timestamp >= capture_time
        /\ cycles[i].frames = InWindow(cycles[i])

C3_Witness ==
    \E i \in 1..Len(cycles) :
        /\ Len(cycles[i].frames) >= 2
        /\ cycles[i].frames[2].timestamp > cycles[i].frames[1].timestamp

\* C4 as stated: the frame that closed a window is the first frame analysed
\* in the following cycle.
C4_TriggerOpensNext ==
    \A i \in 1..(Len(cycles) - 1) : cycles[i + 1].frames[1] = cycles[i].trigger

\* C4 as amended: the frame that closes a window is dropped; it is in no
\* analysed frame set and never in the buffer, and the following cycle's
\* frame set begins with a frame delivered after it.
C4_TriggerDiscarded ==
    \A i \in 1..Len(cycles) :
        /\ cycles[i].trigger \notin Range(data)
        /\ \A j \in 1..Len(cycles) : cycles[i].trigger \notin Frames(j)
        /\ i < Len(cycles) => cycles[i + 1].frames[1].seq > cycles[i].trigger.seq

C4_Witness ==
    /\ Len(cycles) >= 2
    /\ cycles[2].frames[1].seq = cycles[1].trigger.seq + 1

\* C5. process_and_publish returns with the node armed, and the next frame
\* delivered to an armed node after a publication becomes the whole buffer:
\* data = <<frame>> and first_timestamp = the frame's stamp.
C5_ArmsOnNextFrame ==
    [][/\ Len(pub_detections') > Len(pub_detections) => trigger'
       /\ (Len(pub_detections) > 0 /\ trigger /\ seq' # seq)
            => /\ data' = <<[timestamp |-> now', seq |-> seq']>>
               /\ first_timestamp' = now'
               /\ ~trigger']_vars

C5_Witness ==
    /\ Len(pub_detections) > 0
    /\ ~trigger
    /\ Len(data) = 1
    /\ data[1] = rearm_first
    /\ first_timestamp = data[1].timestamp
    /\ data[1].seq > cycles[1].trigger.seq

\* C6. The buffered frames are in non-decreasing stamp order and every one
\* of them lies less than capture_time after the first.
C6_CaptureWindow ==
    /\ \A i \in 1..(Len(data) - 1) : data[i].timestamp <= data[i + 1].timestamp
    /\ \A i \in 1..Len(data) :
          /\ 0 <= data[i].timestamp - data[1].timestamp
          /\ data[i].timestamp - data[1].timestamp < capture_time

C6_Witness ==
    /\ Len(data) >= 3
    /\ data[2].timestamp = data[1].timestamp
    /\ data[3].timestamp > data[1].timestamp

\* C7. After process_and_publish has failed with an error the pipeline is
\* still armable: the node is armed and subscribed, so that a later frame
\* starts a window.
C7_RemainsArmable ==
    (error # "none" /\ running = <<>>) => (trigger /\ sub_cam)

\* C8. One message is published per processing run that has finished, every
\* run analyses at least one frame, and the frames of a run were captured
\* after the publication of the run before it.
C8_OnePerWindow ==
    /\ Len(pub_detections) = Len(cycles) - Len(running)
    /\ Len(pub_at) = Len(pub_detections)
    /\ \A i \in 1..Len(cycles) : cycles[i].frames # <<>>
    /\ \A i \in 2..Len(cycles) :
          /\ i - 1 <= Len(pub_at)
          /\ cycles[i].frames[1].seq > pub_at[i - 1]

C8_Witness ==
    /\ Len(pub_detections) = 2
    /\ Len(cycles) = 2
    /\ running = <<>>

\* A region box that is inverted or leaves the image.
BadRegion(c) ==
    \/ c.h0 > c.h1
    \/ c.w0 > c.w1
    \/ \E k \in {c.h0, c.h1, c.w0, c.w1} : k < 0 \/ k > Den

\* C9. crop_image fails with a configuration error for a region whose bounds
\* are inverted or outside [0, 1].
C9_BadRegionRejected ==
    (crop_out # NoCrop /\ BadRegion(crop_in)) => crop_out.raised = "ConfigurationError"

\* C10. At most one processing run is in progress, also when camera_callback
\* is invoked while one is.
C10_NoOverlap == Len(running) <= 1

C10_Witness ==
    /\ Len(running) = 1
    /\ \E f \in during : f.seq > cycles[Len(cycles)].trigger.seq

\* C11. No frame is carried across windows: the frame sets analysed in two
\* different cycles share no frame.
C11_NoCarryOver ==
    \A i \in 1..Len(cycles) : \A j \in 1..Len(cycles) :
        i # j => Frames(i) \cap Frames(j) = {}

C11_Witness ==
    /\ Len(cycles) >= 2
    /\ Len(cycles[1].frames) >= 2
    /\ Len(cycles[2].frames) >= 2

\* The record of the last processing run that finished.
LastCycle == cycles[Len(cycles) - Len(running)]

\* C12. In every processing run the depth of the stacked volume, the depth of
\* each cropped region and the num_img given to interpret_signal equal the
\* number of frames retained in the buffer, and t_s = capture_time / num_img.
C12_FrameCount ==
    last_run # NoRun =>
        LET n == Len(LastCycle.frames) IN
        /\ last_run.buffered = n
        /\ last_run.depth = n
        /\ \A k \in 1..3 : last_run.crops[k] = n
        /\ last_run.num_img = n
        /\ last_run.t_s.den # 0
        /\ last_run.t_s.num * n = capture_time * last_run.t_s.den

C12_Witness ==
    /\ last_run # NoRun
    /\ last_run.num_img >= 2
    /\ Len(pub_detections) >= 2

\* C14. With capture_time > 0 processing never starts on an empty buffer:
\* data[0] never raises, every stack being processed holds a frame, and a
\* window armed by a frame with a positive stamp holds that frame first.
C14_NeverEmpty ==
    /\ error # "IndexError"
    /\ \A i \in 1..Len(running) : running[i] # <<>>
    /\ (~trigger /\ ~capture_finished /\ first_timestamp > 0)
          => (data # <<>> /\ data[1].timestamp = first_timestamp /\ data[1] = seen[1])

C14_Witness ==
    /\ running # <<>>
    /\ Len(running[1]) = 1
    /\ running[1][1].timestamp > 0

\* C15. node_state is 1 while frames are accumulated, 2 from the moment
\* processing starts (as long as no further message has reached the node),
\* and 0 once the window is consumed and the node armed.
C15_NodeState ==
    /\ (~trigger /\ ~capture_finished /\ data # <<>>) => node_state = 1
    /\ (running # <<>> /\ seq = cycles[Len(cycles)].trigger.seq) => node_state = 2
    /\ (trigger /\ running = <<>>) => node_state = 0

\* C16. Every published message has left = "UNKNOWN", and the message of a
\* run carries in front, right and traffic_light_state what interpret_signal
\* returned in that run.
C16_MessageFields ==
    /\ \A i \in 1..Len(pub_detections) : pub_detections[i].left = "UNKNOWN"
    /\ last_run # NoRun =>
          LET m == pub_detections[Len(pub_detections)] IN
          /\ m.front = last_run.returned.front
          /\ m.right = last_run.returned.right
          /\ m.traffic_light_state = last_run.returned.traffic_light

C16_Witness ==
    /\ Len(pub_detections) >= 2
    /\ pub_detections[1].front # pub_detections[2].front
    /\ pub_detections[1].right # pub_detections[2].right
    /\ pub_detections[1].traffic_light_state # pub_detections[2].traffic_light_state

\* A region box with 0 <= h0 < h1 <= 1 and 0 <= w0 < w1 <= 1.
ValidRegion(c) ==
    /\ 0 <= c.h0 /\ c.h0 < c.h1 /\ c.h1 <= Den
    /\ 0 <= c.w0 /\ c.w0 < c.w1 /\ c.w1 <= Den

\* lo = floor(dim * k0 / Den) and hi = ceil(dim * k1 / Den), and the range
\* lo .. hi - 1 is a non-empty part of 0 .. dim - 1.
IsFloorCeil(range, dim, k0, k1) ==
    /\ range[1] * Den <= dim * k0 /\ dim * k0 < (range[1] + 1) * Den
    /\ (range[2] - 1) * Den < dim * k1 /\ dim * k1 <= range[2] * Den
    /\ 0 <= range[1] /\ range[1] < range[2] /\ range[2] <= dim

\* C13. For a valid region box crop_image returns rows floor(height*h0) ..
\* ceil(height*h1)-1 and columns floor(width*w0) .. ceil(width*w1)-1, a
\* non-empty part of the image, with every frame of the volume.
C13_CropBounds ==
    (crop_out # NoCrop /\ ValidRegion(crop_in)) =>
        /\ crop_out.raised = "none"
        /\ IsFloorCeil(crop_out.rows, crop_in.height, crop_in.h0, crop_in.h1)
        /\ IsFloorCeil(crop_out.cols, crop_in.width, crop_in.w0, crop_in.w1)
        /\ crop_out.depth = crop_in.num_img

C13_Witness ==
    /\ crop_out # NoCrop
    /\ ValidRegion(crop_in)
    /\ crop_in.height = 2
    /\ crop_in.h0 = 1 /\ crop_in.h1 = Den
    /\ crop_out.rows[1] > 0
    /\ crop_out.cols[2] < crop_in.width

\* C17. A resource that is in the local index, or whose file is already in
\* downloads, is returned from there with no download attempted and the cache
\* left alone; the cache is invalidated only after a download that succeeded.
C17_DownloadOnlyIfNeeded ==
    /\ (gl_pc # "start" /\ in_index)
          => /\ gl_pc = "returned" /\ result = "basename2filename"
             /\ attempts = <<>> /\ ~cache_invalidated
    /\ (gl_pc # "start" /\ ~in_index /\ file_exists)
          => /\ gl_pc = "returned" /\ result = "downloads"
             /\ attempts = <<>> /\ ~cache_invalidated
    /\ cache_invalidated
          => /\ attempts # <<>>
             /\ attempts[Len(attempts)] \in reachable
             /\ downloaded = attempts[Len(attempts)]
             /\ gl_pc = "returned" /\ result = "downloads"

C17_Witness ==
    /\ gl_pc = "returned"
    /\ ~in_index /\ file_exists
    /\ \E i \in reachable : urls[i].scheme = "http"

\* The order C18 states: a url with 8080 before one without, otherwise as in urls.
TriedBefore(i, j) ==
    \/ urls[i].has8080 /\ ~urls[j].has8080
    \/ urls[i].has8080 = urls[j].has8080 /\ i < j

HttpPositions == {i \in 1..Len(urls) : urls[i].scheme # "file"}

\* C18. When a download is needed only http urls are tried, those with 8080
\* first and otherwise in their original order, none skipped; the first
\* success ends the attempts, and the call raises, the cache left alone, when
\* every http url failed or there is none.
C18_DownloadOrder ==
    (gl_pc # "start" /\ ~in_index /\ ~file_exists) =>
        /\ \A k \in 1..Len(attempts) : attempts[k] \in HttpPositions
        /\ \A k \in 1..Len(attempts) : \A l \in 1..Len(attempts) :
              k < l => TriedBefore(attempts[k], attempts[l])
        /\ \A k \in 1..Len(attempts) : \A j \in HttpPositions :
              TriedBefore(j, attempts[k]) => j \in Range(attempts)
        /\ \A k \in 1..(Len(attempts) - 1) : attempts[k] \notin reachable
        /\ gl_pc = "returned"
              => /\ attempts # <<>>
                 /\ attempts[Len(attempts)] \in reachable
                 /\ cache_invalidated
        /\ gl_pc = "raised"
              => /\ Range(attempts) = HttpPositions
                 /\ HttpPositions \cap reachable = {}
                 /\ ~cache_invalidated
        /\ gl_pc = "loop" => ~cache_invalidated

C18_Witness ==
    /\ gl_pc = "returned"
    /\ Len(attempts) = 2
    /\ attempts[1] > attempts[2]
    /\ \E i \in 1..Len(urls) : urls[i].scheme = "file" /\ i \in reachable

C18_WitnessRaised ==
    /\ gl_pc = "raised"
    /\ Len(attempts) >= 2

====
